---- MODULE Spec2Model ----
(***************************************************************************)
(* dynpool.DynamicPoolResizer (src/dynpool.py): the sizing policy of a     *)
(* pool of resources.  The pool is a collaborator reached through the      *)
(* attributes size, idle, min, max, qsize and the methods grow and shrink. *)
(* The resizer holds minspare, maxspare, shrinkfreq, lastshrink and a      *)
(* mutex; run() is called periodically by any number of threads.           *)
(***************************************************************************)
EXTENDS Integers, Sequences, FiniteSets, TLC

VARIABLES
    pool,        \* the pool object: [size, idle, min, max, qsize]
    minspare,    \* self.minspare
    maxspare,    \* self.maxspare
    shrinkfreq,  \* self.shrinkfreq
    lastshrink,  \* self.lastshrink: None, or the clock reading of the last shrink
    mutex,       \* self._mutex: TRUE while the lock is held
    now,         \* what time.time() returns
    pc,          \* per thread: its position in run(), or how its last run() ended
    grow_val,    \* per thread: the local grow_value of run()
    shrink_val,  \* per thread: the local shrink_value of run()
    calls        \* per thread: what the current (or last) run() evaluated and called

vars == <<pool, minspare, maxspare, shrinkfreq, lastshrink, mutex, now, pc,
          grow_val, shrink_val, calls>>

----------------------------------------------------------------------------
(* Bounds of the explored state space.                                     *)

\* largest pool size
MaxSize == 4
\* longest queue of waiting jobs
MaxQueue == 1
\* largest minspare, maxspare and pool.min
MaxSpare == 3
\* last clock reading
MaxClock == 3

\* self.lastshrink = None: a value no clock reading takes
None == -1

Threads == {1, 2}

\* shrinkfreq values explored (the default is 5)
ShrinkFreqs == {1, 2}

----------------------------------------------------------------------------
(* Python's truth value of an integer.                                     *)

Truthy(x) == x # 0

\* max(0, a, b)
Max3(a, b, c) ==
    IF a >= b /\ a >= c THEN a ELSE IF b >= c THEN b ELSE c

\* min(a, b)
Min2(a, b) == IF a <= b THEN a ELSE b

\* int(math.ceil(d / 2.0))
CeilHalf(d) == IF d % 2 = 0 THEN d \div 2 ELSE (d \div 2) + 1

----------------------------------------------------------------------------
(* The two evaluation properties, on the pool as it is when they are read. *)

\* a plausible slip: the exhaustion test ahead of the ceiling test
grow_value_exhaustion_first(p) ==
    IF ~Truthy(p.idle) /\ Truthy(p.qsize)
    THEN maxspare
    ELSE IF (0 < p.max /\ p.max <= p.size) \/ p.idle > maxspare
    THEN 0
    ELSE Max3(0, p.min - p.size, minspare - p.idle)

grow_value(p) ==
    IF (0 < p.max /\ p.max <= p.size) \/ p.idle > maxspare
    THEN 0
    ELSE IF ~Truthy(p.idle) /\ Truthy(p.qsize)
    THEN maxspare
    ELSE Max3(0, p.min - p.size, minspare - p.idle)

\* a plausible slip: the maxspare test ahead of the all-idle test
shrink_value_maxspare_first(p) ==
    IF p.idle > maxspare
    THEN p.idle - maxspare
    ELSE IF p.size > p.min /\ p.size = p.idle /\ ~Truthy(p.qsize)
    THEN Min2(p.size - p.min, p.idle - minspare)
    ELSE IF p.idle > minspare /\ ~Truthy(p.qsize)
    THEN CeilHalf(p.idle - minspare)
    ELSE 0

\* a plausible slip: size for idle in the maxspare branch
shrink_value_size_for_idle(p) ==
    IF p.size > p.min /\ p.size = p.idle /\ ~Truthy(p.qsize)
    THEN Min2(p.size - p.min, p.idle - minspare)
    ELSE IF p.idle > maxspare
    THEN p.size - maxspare
    ELSE IF p.idle > minspare /\ ~Truthy(p.qsize)
    THEN CeilHalf(p.idle - minspare)
    ELSE 0

\* a slip: the all-idle branch looks at min alone
shrink_value_all_idle_to_min(p) ==
    IF p.size > p.min /\ p.size = p.idle /\ ~Truthy(p.qsize)
    THEN p.size - p.min
    ELSE IF p.idle > maxspare
    THEN p.idle - maxspare
    ELSE IF p.idle > minspare /\ ~Truthy(p.qsize)
    THEN CeilHalf(p.idle - minspare)
    ELSE 0

shrink_value(p) ==
    IF p.size > p.min /\ p.size = p.idle /\ ~Truthy(p.qsize)
    THEN Min2(p.size - p.min, p.idle - minspare)
    ELSE IF p.idle > maxspare
    THEN p.idle - maxspare
    ELSE IF p.idle > minspare /\ ~Truthy(p.qsize)
    THEN CeilHalf(p.idle - minspare)
    ELSE 0

\* can_shrink() with the clock reading t
\* "not last" holds of None and of a zero reading alike
can_shrink_at(t) ==
    (lastshrink = None \/ ~Truthy(lastshrink)) \/ t - lastshrink > shrinkfreq

can_shrink == can_shrink_at(now)

----------------------------------------------------------------------------
(* The pool's attributes are read one at a time; a snapshot is a record.   *)

Snapshots ==
    { p \in [size : 0..MaxSize, idle : 0..MaxSize, min : 0..MaxSpare,
             max : -1..MaxSize, qsize : 0..MaxQueue] : p.idle <= p.size }

Event(op, arg) == [op |-> op, arg |-> arg]

NoLocals == [t \in Threads |-> 0]

\* DynamicPoolResizer(pool, minspare, maxspare, shrinkfreq)
Constructed ==
    /\ lastshrink = None
    /\ mutex = FALSE
    /\ pc = [t \in Threads |-> "idle"]
    /\ grow_val = NoLocals
    /\ shrink_val = NoLocals
    /\ calls = [t \in Threads |-> <<>>]

----------------------------------------------------------------------------
(* Reading the properties directly, as the tests do: resizer.grow_value    *)
(* and resizer.shrink_value on a fixed pool.                               *)

InitEval ==
    /\ pool \in Snapshots
    /\ minspare \in 0..MaxSpare
    /\ maxspare \in 0..MaxSpare
    /\ shrinkfreq = 1
    /\ now = 0
    /\ Constructed

GetGrowValue(t) ==
    /\ pc[t] = "idle"
    /\ Len(calls[t]) < 2
    /\ calls' = [calls EXCEPT ![t] = Append(@, Event("grow_value", grow_value(pool)))]
    /\ UNCHANGED <<pool, minspare, maxspare, shrinkfreq, lastshrink, mutex, now,
                   pc, grow_val, shrink_val>>

GetShrinkValue(t) ==
    /\ pc[t] = "idle"
    /\ Len(calls[t]) < 2
    /\ calls' = [calls EXCEPT ![t] = Append(@, Event("shrink_value", shrink_value(pool)))]
    /\ UNCHANGED <<pool, minspare, maxspare, shrinkfreq, lastshrink, mutex, now,
                   pc, grow_val, shrink_val>>

NextEval == GetGrowValue(1) \/ GetShrinkValue(1)

SpecEval == InitEval /\ [][NextEval]_vars

----------------------------------------------------------------------------
(* The pool collaborator, as the interface describes it.                   *)

\* pool.grow(amount): creates amount new idle resources
PoolGrow(p, n) == [p EXCEPT !.size = @ + n, !.idle = @ + n]

\* pool.shrink(amount): shrinks the pool by amount resources; a pool has
\* nothing to remove for an amount that is not positive
PoolShrink(p, n) ==
    IF n > 0 THEN [p EXCEPT !.size = @ - n, !.idle = @ - n] ELSE p

\* the counters stay those of a pool within the explored sizes
PoolOk(p) == 0 <= p.idle /\ p.idle <= p.size /\ p.size <= MaxSize

----------------------------------------------------------------------------
(* run(), one step per statement, by any thread.                           *)

\* the configurations explored: SomePool(min, max), then
\* DynamicPoolResizer(pool, minspare, maxspare, shrinkfreq) on the empty pool
Init ==
    /\ \E mn \in {0, 2}, mx \in {-1, 1, 3} :
          pool = [size |-> 0, idle |-> 0, min |-> mn, max |-> mx, qsize |-> 0]
    /\ minspare \in {0, 2}
    /\ maxspare \in {1, 2}
    /\ shrinkfreq \in ShrinkFreqs
    /\ now = 0
    /\ Constructed

\* a thread calls run() and waits at "with self._mutex"
CallRun(t) ==
    /\ pc[t] \in {"idle", "raised"}
    /\ pc' = [pc EXCEPT ![t] = "acquire"]
    /\ UNCHANGED <<pool, minspare, maxspare, shrinkfreq, lastshrink, mutex, now,
                   grow_val, shrink_val, calls>>

\* a lock that lets every thread in
AcquireUnlocked(t) ==
    /\ pc[t] = "acquire"
    /\ mutex' = TRUE
    /\ pc' = [pc EXCEPT ![t] = "grow_value"]
    /\ UNCHANGED <<pool, minspare, maxspare, shrinkfreq, lastshrink, now,
                   grow_val, shrink_val, calls>>

\* with self._mutex: (threading.Lock.acquire)
Acquire(t) ==
    /\ pc[t] = "acquire"
    /\ mutex = FALSE
    /\ mutex' = TRUE
    /\ pc' = [pc EXCEPT ![t] = "grow_value"]
    /\ UNCHANGED <<pool, minspare, maxspare, shrinkfreq, lastshrink, now,
                   grow_val, shrink_val, calls>>

\* a slip: growing waits for the shrink rate limit as well
AfterGrowValueRateLimited(v) ==
    IF Truthy(v) /\ can_shrink THEN "grow" ELSE "can_shrink"

\* a slip: the shrink path is entered whatever grow_value is
AfterGrowValueIgnored(v) == "can_shrink"

\* where run() goes once grow_value is known: "if grow_value: ... elif ..."
AfterGrowValue(v) == IF Truthy(v) THEN "grow" ELSE "can_shrink"

\* grow_value = self.grow_value
EvalGrowValue(t) ==
    /\ pc[t] = "grow_value"
    /\ LET v == grow_value(pool) IN
         /\ grow_val' = [grow_val EXCEPT ![t] = v]
         /\ calls' = [calls EXCEPT ![t] = Append(@, Event("grow_value", v))]
         /\ pc' = [pc EXCEPT ![t] = AfterGrowValue(v)]
    /\ UNCHANGED <<pool, minspare, maxspare, shrinkfreq, lastshrink, mutex, now,
                   shrink_val>>

\* a slip: "if" for "elif", so that a tick that grew goes on to shrink
AfterGrowFallsThrough == "can_shrink"

\* where run() goes after self.grow(grow_value) returned
AfterGrow == "exit"

\* a slip: growing records the time as shrinking does
GrowRecordsTime(t) ==
    /\ pc[t] = "grow"
    /\ calls' = [calls EXCEPT ![t] = Append(@, Event("grow", grow_val[t]))]
    /\ lastshrink' = now
    /\ \/ /\ PoolOk(PoolGrow(pool, grow_val[t]))
          /\ pool' = PoolGrow(pool, grow_val[t])
          /\ pc' = [pc EXCEPT ![t] = "exit"]
       \/ /\ pc' = [pc EXCEPT ![t] = "exit_raise"]
          /\ UNCHANGED pool
    /\ UNCHANGED <<minspare, maxspare, shrinkfreq, mutex, now, grow_val, shrink_val>>

\* self.grow(grow_value): the log line, then pool.grow, which returns or raises
Grow(t) ==
    /\ pc[t] = "grow"
    /\ calls' = [calls EXCEPT ![t] = Append(@, Event("grow", grow_val[t]))]
    /\ \/ /\ PoolOk(PoolGrow(pool, grow_val[t]))
          /\ pool' = PoolGrow(pool, grow_val[t])
          /\ pc' = [pc EXCEPT ![t] = AfterGrow]
       \/ /\ pc' = [pc EXCEPT ![t] = "exit_raise"]
          /\ UNCHANGED pool
    /\ UNCHANGED <<minspare, maxspare, shrinkfreq, lastshrink, mutex, now,
                   grow_val, shrink_val>>

\* elif self.can_shrink():
CanShrink(t) ==
    /\ pc[t] = "can_shrink"
    /\ calls' = [calls EXCEPT ![t] = Append(@, Event("can_shrink", IF can_shrink THEN 1 ELSE 0))]
    /\ pc' = [pc EXCEPT ![t] = IF can_shrink THEN "shrink_value" ELSE "exit"]
    /\ UNCHANGED <<pool, minspare, maxspare, shrinkfreq, lastshrink, mutex, now,
                   grow_val, shrink_val>>

\* shrink_value = self.shrink_value; if shrink_value:
EvalShrinkValue(t) ==
    /\ pc[t] = "shrink_value"
    /\ LET v == shrink_value(pool) IN
         /\ shrink_val' = [shrink_val EXCEPT ![t] = v]
         /\ calls' = [calls EXCEPT ![t] = Append(@, Event("shrink_value", v))]
         /\ pc' = [pc EXCEPT ![t] = IF Truthy(v) THEN "shrink" ELSE "exit"]
    /\ UNCHANGED <<pool, minspare, maxspare, shrinkfreq, lastshrink, mutex, now,
                   grow_val>>

\* a slip: lastshrink is recorded ahead of the pool call
ShrinkRecordsFirst(t) ==
    /\ pc[t] = "shrink"
    /\ calls' = [calls EXCEPT ![t] = Append(@, Event("shrink", shrink_val[t]))]
    /\ lastshrink' = now
    /\ \/ /\ PoolOk(PoolShrink(pool, shrink_val[t]))
          /\ pool' = PoolShrink(pool, shrink_val[t])
          /\ pc' = [pc EXCEPT ![t] = "lastshrink"]
       \/ /\ pc' = [pc EXCEPT ![t] = "exit_raise"]
          /\ UNCHANGED pool
    /\ UNCHANGED <<minspare, maxspare, shrinkfreq, mutex, now, grow_val, shrink_val>>

\* self.shrink(shrink_value), up to pool.shrink, which returns or raises
Shrink(t) ==
    /\ pc[t] = "shrink"
    /\ calls' = [calls EXCEPT ![t] = Append(@, Event("shrink", shrink_val[t]))]
    /\ \/ /\ PoolOk(PoolShrink(pool, shrink_val[t]))
          /\ pool' = PoolShrink(pool, shrink_val[t])
          /\ pc' = [pc EXCEPT ![t] = "lastshrink"]
       \/ /\ pc' = [pc EXCEPT ![t] = "exit_raise"]
          /\ UNCHANGED pool
    /\ UNCHANGED <<minspare, maxspare, shrinkfreq, lastshrink, mutex, now,
                   grow_val, shrink_val>>

\* self.lastshrink = time.time()
SetLastShrink(t) ==
    /\ pc[t] = "lastshrink"
    /\ lastshrink' = now
    /\ pc' = [pc EXCEPT ![t] = "exit"]
    /\ UNCHANGED <<pool, minspare, maxspare, shrinkfreq, mutex, now,
                   grow_val, shrink_val, calls>>

\* a slip: acquire()/release() without try/finally, so that an exception
\* of the pool leaves the lock held
ReleaseLeaksOnRaise(t) ==
    /\ pc[t] \in {"exit", "exit_raise"}
    /\ mutex' = (pc[t] = "exit_raise")
    /\ pc' = [pc EXCEPT ![t] = IF pc[t] = "exit" THEN "idle" ELSE "raised"]
    /\ grow_val' = [grow_val EXCEPT ![t] = 0]
    /\ shrink_val' = [shrink_val EXCEPT ![t] = 0]
    /\ calls' = [calls EXCEPT ![t] = <<>>]
    /\ UNCHANGED <<pool, minspare, maxspare, shrinkfreq, lastshrink, now>>

\* leaving the with block releases the lock; run() returns, or the pool's
\* exception goes on to the caller.  The locals end with the call.
Release(t) ==
    /\ pc[t] \in {"exit", "exit_raise"}
    /\ mutex' = FALSE
    /\ pc' = [pc EXCEPT ![t] = IF pc[t] = "exit" THEN "idle" ELSE "raised"]
    /\ grow_val' = [grow_val EXCEPT ![t] = 0]
    /\ shrink_val' = [shrink_val EXCEPT ![t] = 0]
    /\ calls' = [calls EXCEPT ![t] = <<>>]
    /\ UNCHANGED <<pool, minspare, maxspare, shrinkfreq, lastshrink, now>>

run(t) ==
    \/ CallRun(t)
    \/ Acquire(t)
    \/ EvalGrowValue(t)
    \/ Grow(t)
    \/ CanShrink(t)
    \/ EvalShrinkValue(t)
    \/ Shrink(t)
    \/ SetLastShrink(t)
    \/ Release(t)

----------------------------------------------------------------------------
(* What happens around the resizer: the clock, and the pool's own users.   *)

\* time.time() moves on
Tick ==
    /\ now < MaxClock
    /\ now' = now + 1
    /\ UNCHANGED <<pool, minspare, maxspare, shrinkfreq, lastshrink, mutex, pc,
                   grow_val, shrink_val, calls>>

\* a job arrives in the queue
Enqueue ==
    /\ pool.qsize < MaxQueue
    /\ pool' = [pool EXCEPT !.qsize = @ + 1]
    /\ UNCHANGED <<minspare, maxspare, shrinkfreq, lastshrink, mutex, now, pc,
                   grow_val, shrink_val, calls>>

\* an idle resource takes a job from the queue
Take ==
    /\ pool.qsize > 0
    /\ pool.idle > 0
    /\ pool' = [pool EXCEPT !.qsize = @ - 1, !.idle = @ - 1]
    /\ UNCHANGED <<minspare, maxspare, shrinkfreq, lastshrink, mutex, now, pc,
                   grow_val, shrink_val, calls>>

\* a busy resource finishes its job and is idle again
Finish ==
    /\ pool.idle < pool.size
    /\ pool' = [pool EXCEPT !.idle = @ + 1]
    /\ UNCHANGED <<minspare, maxspare, shrinkfreq, lastshrink, mutex, now, pc,
                   grow_val, shrink_val, calls>>

Next ==
    \/ \E t \in Threads : run(t)
    \/ Tick
    \/ Enqueue
    \/ Take
    \/ Finish

Spec == Init /\ [][Next]_vars

\* One configuration, for the questions about progress: SomePool(0, 3) and
\* DynamicPoolResizer(pool, 2, 2, shrinkfreq) on the empty pool.
InitFair ==
    /\ pool = [size |-> 0, idle |-> 0, min |-> 0, max |-> 3, qsize |-> 0]
    /\ minspare = 2
    /\ maxspare = 2
    /\ shrinkfreq \in ShrinkFreqs
    /\ now = 0
    /\ Constructed

\* a statement of run() that is not waiting is executed in the end: none of
\* them blocks, and the pool calls return or raise
Proceeds(t) ==
    \/ EvalGrowValue(t)
    \/ Grow(t)
    \/ CanShrink(t)
    \/ EvalShrinkValue(t)
    \/ Shrink(t)
    \/ SetLastShrink(t)
    \/ Release(t)

\* run() under a fair scheduler: a thread in the body goes on, and a thread
\* waiting for a lock that is free again and again gets it in the end
SpecFair ==
    /\ InitFair
    /\ [][Next]_vars
    /\ \A t \in Threads : WF_vars(Proceeds(t)) /\ SF_vars(Acquire(t))

----------------------------------------------------------------------------
(* run() beside the pool's users, with a note of what they do meanwhile.   *)

\* the positions of run() between its first read of the pool's counters on
\* the shrink path and pool.shrink
Deciding == {"can_shrink", "shrink_value", "shrink"}

\* the calls of each thread, with a note for every run() that is deciding
\* while the pool's users change the counters
Noted ==
    [t \in Threads |->
        IF pc[t] \in Deciding /\ \A i \in 1..Len(calls[t]) : calls[t][i].op # "changed"
        THEN Append(calls[t], Event("changed", 0))
        ELSE calls[t]]

\* what a user of the pool does to the counters, noted for the threads
\* that are deciding
UserNoted ==
    /\ \/ /\ pool.qsize < MaxQueue
          /\ pool' = [pool EXCEPT !.qsize = @ + 1]
       \/ /\ pool.qsize > 0
          /\ pool.idle > 0
          /\ pool' = [pool EXCEPT !.qsize = @ - 1, !.idle = @ - 1]
       \/ /\ pool.idle < pool.size
          /\ pool' = [pool EXCEPT !.idle = @ + 1]
    /\ calls' = Noted
    /\ UNCHANGED <<minspare, maxspare, shrinkfreq, lastshrink, mutex, now, pc,
                   grow_val, shrink_val>>

\* the configurations explored: SomePool(min, 3), then
\* DynamicPoolResizer(pool, minspare, maxspare, 1) on the empty pool
InitNoted ==
    /\ \E mn \in {0, 2} :
          pool = [size |-> 0, idle |-> 0, min |-> mn, max |-> 3, qsize |-> 0]
    /\ minspare \in {0, 2}
    /\ maxspare \in {1, 2}
    /\ shrinkfreq = 1
    /\ now = 0
    /\ Constructed

NextNoted ==
    \/ \E t \in Threads : run(t)
    \/ Tick
    \/ UserNoted

SpecNoted == InitNoted /\ [][NextNoted]_vars

----------------------------------------------------------------------------
(* The resizer alone with a quiet pool: no job arrives, no resource changes *)
(* between idle and busy, and pool.grow / pool.shrink do as they are told. *)

\* the pools and configurations explored: up to two resources, some of them
\* busy for good, 0 < min <= max
InitQuiet ==
    /\ \E sz \in 0..2, mn \in {1, 2}, mx \in {2, 3} :
         \E id \in 0..sz :
            pool = [size |-> sz, idle |-> id, min |-> mn, max |-> mx, qsize |-> 0]
    /\ minspare \in 0..2
    /\ maxspare \in 0..2
    /\ shrinkfreq = 1
    /\ now = 1
    /\ Constructed

\* self.grow(grow_value) with a pool.grow that returns
GrowReturns(t) == Grow(t) /\ pc'[t] # "exit_raise"

\* self.shrink(shrink_value) with a pool.shrink that returns
ShrinkReturns(t) == Shrink(t) /\ pc'[t] # "exit_raise"

\* time.time() moves on past the last reading explored: can_shrink() reads
\* the clock only as time.time() - lastshrink, so the readings are counted
\* from a later origin
TickLate ==
    /\ now = MaxClock
    /\ lastshrink # None
    /\ lastshrink > 1
    /\ lastshrink' = lastshrink - 1
    /\ UNCHANGED <<pool, minspare, maxspare, shrinkfreq, mutex, now, pc,
                   grow_val, shrink_val, calls>>

NextQuiet ==
    \/ \E t \in Threads :
          \/ CallRun(t)
          \/ Acquire(t)
          \/ EvalGrowValue(t)
          \/ GrowReturns(t)
          \/ CanShrink(t)
          \/ EvalShrinkValue(t)
          \/ ShrinkReturns(t)
          \/ SetLastShrink(t)
          \/ Release(t)
    \/ Tick
    \/ TickLate

\* run() is called again and again by both threads, under a fair scheduler,
\* and time passes
SpecQuiet ==
    /\ InitQuiet
    /\ [][NextQuiet]_vars
    /\ \A t \in Threads :
          WF_vars(CallRun(t)) /\ WF_vars(Proceeds(t)) /\ SF_vars(Acquire(t))
    /\ WF_vars(Tick)
    /\ WF_vars(TickLate)

----------------------------------------------------------------------------
(* What the claims speak of.                                               *)

\* the places of calls[t] that hold an event op
Ops(t, op) == { i \in 1..Len(calls[t]) : calls[t][i].op = op }

\* the values calls[t] holds for an event op
Args(t, op) == { calls[t][i].arg : i \in Ops(t, op) }

\* the positions of run() inside the with block
Body == {"grow_value", "grow", "can_shrink", "shrink_value", "shrink",
         "lastshrink", "exit", "exit_raise"}

Greatest(S) == CHOOSE m \in S : \A x \in S : m >= x

Least(S) == CHOOSE m \in S : \A x \in S : m <= x

\* the least integer k with 2k >= d
CeilOfHalf(d) == Least({ k \in -(MaxSize + MaxSpare)..(MaxSize + MaxSpare) : 2 * k >= d })

\* the pool has no idle resource, jobs wait, and the pool is under its ceiling
Exhausted(p) ==
    p.idle = 0 /\ p.qsize > 0 /\ (p.max <= 0 \/ p.size < p.max)

GrowReference(p) ==
    IF (p.max > 0 /\ p.size >= p.max) \/ p.idle > maxspare THEN 0
    ELSE IF p.idle = 0 /\ p.qsize > 0 THEN maxspare
    ELSE Greatest({0, p.min - p.size, minspare - p.idle})

ShrinkReference(p) ==
    IF p.size > p.min /\ p.size = p.idle /\ p.qsize = 0
    THEN Least({p.size - p.min, p.idle - minspare})
    ELSE IF p.idle > maxspare THEN p.idle - maxspare
    ELSE IF p.idle > minspare /\ p.qsize = 0 THEN CeilOfHalf(p.idle - minspare)
    ELSE 0

C3_AtMostOneAction ==
    \A t \in Threads :
        /\ Cardinality(Ops(t, "grow")) + Cardinality(Ops(t, "shrink")) <= 1
        /\ \A v \in Args(t, "grow_value") :
              v # 0 =>
                /\ Ops(t, "can_shrink") = {}
                /\ Ops(t, "shrink_value") = {}
                /\ Ops(t, "shrink") = {}
                /\ Args(t, "grow") \subseteq {v}
                /\ pc[t] \in {"exit", "exit_raise"} => Args(t, "grow") = {v}
        /\ Ops(t, "grow") # {} => 0 \notin Args(t, "grow_value")
        /\ Ops(t, "shrink") # {} =>
              /\ Args(t, "grow_value") = {0}
              /\ Args(t, "can_shrink") = {1}
              /\ Args(t, "shrink_value") = Args(t, "shrink")
              /\ 0 \notin Args(t, "shrink")

\* C3's case: a run() that grew the pool is about to return
C3_Witness ==
    \E t \in Threads :
        /\ pc[t] = "exit"
        /\ Ops(t, "grow") # {}
        /\ pool.size > 0

\* C4: once a shrink recorded the clock reading t in lastshrink,
\* can_shrink() is false at every reading up to t + shrinkfreq and true
\* at every later one, whatever t is.
C4_CanShrinkOnlyPastShrinkfreq ==
    lastshrink # None =>
        \A r \in 0..(MaxClock + 3) :
            can_shrink_at(r) <=> r > lastshrink + shrinkfreq

\* C5: at most one thread is inside the body of run(), and it holds the
\* mutex for the whole of it.
C5_RunIsSerialized ==
    /\ Cardinality({ t \in Threads : pc[t] \in Body }) <= 1
    /\ \A t \in Threads : pc[t] \in Body => mutex

\* C5's case: one thread is about to call pool.shrink while the other waits
\* for the mutex
C5_Witness ==
    \E t, u \in Threads : pc[t] = "shrink" /\ pc[u] = "acquire"

\* C6: when run() calls pool.shrink after an earlier shrink recorded
\* lastshrink, more than shrinkfreq has passed on the clock since.
C6_ShrinksApartByShrinkfreq ==
    [][\A t \in Threads :
          (pc[t] = "shrink" /\ pc'[t] # "shrink" /\ lastshrink # None)
              => now - lastshrink > shrinkfreq]_vars

\* C7: with max > 0 and size <= max, no step brings size above max.
C7_MaxIsHardCeiling ==
    [][(pool.max > 0 /\ pool.size <= pool.max) => pool'.size <= pool'.max]_vars

\* C8: shrink_value is 0 whenever size <= min, and no step takes a pool
\* with size >= min below min.
C8_ShrinkBlockedByMin ==
    [][/\ pool.size <= pool.min => shrink_value(pool) = 0
       /\ pool.size >= pool.min => pool'.size >= pool'.min]_vars

\* C9: on exhaustion grow_value serves the whole queue and leaves between
\* minspare and maxspare spare resources:
\* qsize + minspare <= grow_value <= qsize + maxspare.
C9_ExhaustionGrowthCoversQueue ==
    \A t \in Threads : \A v \in Args(t, "grow_value") :
        Exhausted(pool) =>
            pool.qsize + minspare <= v /\ v <= pool.qsize + maxspare

\* C10: run() passes only positive amounts to pool.grow and pool.shrink.
C10_OnlyPositiveAmounts ==
    \A t \in Threads :
        \A v \in Args(t, "grow") \cup Args(t, "shrink") : v > 0

\* C11: when pool.shrink or pool.grow raises, the step leaves lastshrink as
\* it was and the mutex held; from then on lastshrink keeps its value until
\* the thread leaves run(), which it does with the exception going to its
\* caller and the mutex released.
C11_RaiseChangesNothing ==
    [][\A t \in Threads :
          /\ (pc[t] \in {"grow", "shrink"} /\ pc'[t] = "exit_raise")
                => lastshrink' = lastshrink /\ mutex'
          /\ pc[t] = "exit_raise"
                => /\ lastshrink' = lastshrink
                   /\ pc'[t] # "exit_raise" => pc'[t] = "raised" /\ ~mutex']_vars

\* C11's case: pool.shrink raised in a run() that follows a recorded shrink
C11_Witness ==
    \E t \in Threads :
        /\ pc[t] = "exit_raise"
        /\ Ops(t, "shrink") # {}
        /\ lastshrink # None /\ lastshrink # now

\* C12: lastshrink is None after construction, only the assignment that
\* ends a completed shrink changes it, and while it is None can_shrink()
\* is true at every clock reading.
C12_OnlyShrinkSetsLastshrink ==
    /\ lastshrink = None
    /\ [](lastshrink = None => \A r \in 0..(MaxClock + 3) : can_shrink_at(r))
    /\ [][lastshrink' # lastshrink =>
            \E t \in Threads :
                /\ pc[t] = "lastshrink" /\ pc'[t] = "exit"
                /\ Ops(t, "shrink") # {}]_vars

\* C12's case: late on the clock a run() has grown the pool and no shrink
\* has happened yet
C12_Witness ==
    \E t \in Threads :
        /\ pc[t] = "exit" /\ Ops(t, "grow") # {}
        /\ lastshrink = None /\ now = MaxClock /\ can_shrink

\* C13: with exactly one idle resource more than minspare, not above
\* maxspare, some resource busy and an empty queue, shrink_value is 0.
C13_NoFlutteringResource ==
    \A t \in Threads : \A v \in Args(t, "shrink_value") :
        (/\ pool.idle = minspare + 1 /\ pool.idle <= maxspare
         /\ pool.size > pool.idle /\ pool.qsize = 0) => v = 0

\* C14: a run() whose grow_value is not zero goes on to call pool.grow with
\* it, whatever lastshrink and the clock are.
C14_GrowNotRateLimited ==
    \A t \in Threads : \A v \in Args(t, "grow_value") :
        v # 0 => (pc[t] = "grow" \/ Args(t, "grow") = {v})

\* C14's case: a run() grew the pool while can_shrink() is false
C14_Witness ==
    \E t \in Threads :
        /\ pc[t] = "exit" /\ Ops(t, "grow") # {}
        /\ lastshrink # None /\ ~can_shrink

\* C18: on every snapshot with 0 <= idle <= size and minspare, maxspare
\* >= 0, shrink_value is at most idle.
C18_ShrinkAtMostIdle ==
    \A t \in Threads : \A v \in Args(t, "shrink_value") : v <= pool.idle

\* C18's case: shrink_value asks for every idle resource of a pool with
\* busy ones
C18_Witness ==
    \E t \in Threads :
        /\ Args(t, "shrink_value") = {pool.idle}
        /\ pool.idle > 0 /\ pool.size > pool.idle

\* C15: with pool calls that return or raise and a fair scheduler, every
\* run() that waits for the mutex gets it and every run() in the body
\* returns or passes the pool's exception on; the mutex is held only while
\* some run() is in the body.
C15_RunReturnsAndFreesMutex ==
    /\ \A t \in Threads : pc[t] = "acquire" ~> pc[t] \in Body
    /\ \A t \in Threads : pc[t] \in Body ~> pc[t] \in {"idle", "raised"}
    /\ [](mutex => \E t \in Threads : pc[t] \in Body)

\* C15's case: a run() whose pool call raised has returned, and the other
\* thread holds the mutex in the body
C15_Witness ==
    \E t, u \in Threads :
        /\ pc[t] = "raised"
        /\ pc[u] \in Body
        /\ mutex

C17_ResizingStops ==
    <>[](\A t \in Threads : pc[t] \notin {"grow", "shrink"})

\* C19 as stated: while the pool's users change the counters during run(),
\* whenever run() calls pool.shrink(n), grow_value of the counters at that
\* moment is 0 and n is shrink_value of the counters at that moment.
C19_DecisionMatchesPoolAtCall ==
    \A t \in Threads :
        pc[t] = "shrink" =>
            grow_value(pool) = 0 /\ shrink_val[t] = shrink_value(pool)

\* C19 as amended: whenever run() calls pool.shrink(n) and no user of the
\* pool has changed the counters since run() read them for grow_value,
\* grow_value of the counters at that moment is 0 and n is shrink_value of
\* them.
C19_DecisionMatchesUnchangedPool ==
    \A t \in Threads :
        (pc[t] = "shrink" /\ Ops(t, "changed") = {}) =>
            grow_value(pool) = 0 /\ shrink_val[t] = shrink_value(pool)

\* C19's case: run() is about to call pool.shrink on a pool with a busy
\* resource whose counters nobody changed during the decision
C19_Witness ==
    \E t \in Threads :
        /\ pc[t] = "shrink"
        /\ Ops(t, "changed") = {}
        /\ shrink_val[t] > 0
        /\ pool.size > pool.idle

====
